---- MODULE Spec2Model ----
(***************************************************************************)
(* Model of src-tauri/src/lib.rs: the path allow-list (AllowedPaths) and   *)
(* the Tauri commands that use it.                                         *)
(*                                                                         *)
(* A path is the sequence of components that std::path::Path::components() *)
(* yields: "/" is the RootDir component, ".." the ParentDir component, any *)
(* other string a Normal component; the empty sequence is the empty path.  *)
(* PathBuf equality and Path::starts_with compare these components.        *)
(* An Option<T> is <<>> (None) or <<v>> (Some(v)); a Result likewise.      *)
(***************************************************************************)
EXTENDS Integers, Sequences, FiniteSets, TLC

VARIABLES
    source_directory,   \* AllowedPaths.source_directory : Option<PathBuf>
    allowed_paths,      \* AllowedPaths.allowed_paths    : Vec<PathBuf>
    files,              \* the regular files of the filesystem and their content
    last,               \* the last command invoked and what it returned / did
    pc,                 \* per request thread: where it is in an AllowedPaths method
    frame,              \* per request thread: the method called, its locals, its result
    mutex_source,       \* the thread holding the Mutex of source_directory, 0 if free
    mutex_allowed       \* the thread holding the Mutex of allowed_paths, 0 if free

vars == <<source_directory, allowed_paths, files, last,
          pc, frame, mutex_source, mutex_allowed>>

\* what the request threads add to the state
thread_vars == <<pc, frame, mutex_source, mutex_allowed>>

----------------------------------------------------------------------------
(* Sequence helpers *)

Last(s) == s[Len(s)]
Front(s) == SubSeq(s, 1, Len(s) - 1)

RECURSIVE Reverse(_)
Reverse(s) == IF s = <<>> THEN <<>> ELSE Append(Reverse(Tail(s)), Head(s))

----------------------------------------------------------------------------
(* The filesystem the commands run against.  Directories and symbolic     *)
(* links are fixed; regular files are created by save_progress and        *)
(* export_results (fs::write).                                             *)

RootDir == <<"/">>

Directories ==
    { RootDir,
      <<"/", "data">>,
      <<"/", "data", "foo">>,
      <<"/", "data", "foobar">>,
      <<"/", "ext">>,
      <<"/", "home">> }

\* <<link, target>>: /link is a second spelling of /data/foo; the two links
\* inside /data/foo point outside of it (a directory link and a file link).
Symlinks ==
    { << <<"/", "link">>,                  <<"/", "data", "foo">> >>,
      << <<"/", "data", "foo", "out">>,    <<"/", "ext">> >>,
      << <<"/", "data", "foo", "l.wav">>,  <<"/", "ext", "e.wav">> >> }

IsLink(p) == \E e \in Symlinks : e[1] = p
LinkTarget(p) == (CHOOSE e \in Symlinks : e[1] = p)[2]

\* The working directory of the process (relative paths resolve against it).
cwd == <<"/", "home">>

Blob == [kind |-> "bin", body |-> <<>>]

InitialFiles ==
    { <<"/", "data", "foo", "k.wav">>,
      <<"/", "data", "foobar", "s.wav">>,
      <<"/", "data", "foobar", "t.mp3">>,
      <<"/", "data", "foobar", "n.txt">>,
      <<"/", "data", "foobar", "U.FLAC">>,
      <<"/", "data", "foobar", "README">>,
      <<"/", "ext", "e.wav">> }

\* "dir", "link", "file" or "none": what lstat finds at the location p
Kind(p) ==
    IF p \in Directories THEN "dir"
    ELSE IF IsLink(p) THEN "link"
    ELSE IF p \in DOMAIN files THEN "file"
    ELSE "none"

\* Path resolution as realpath(3) does it: cur is the resolved location so
\* far, rest the components still to be walked.  <<>> on ENOENT / ENOTDIR.
RECURSIVE Resolve(_, _)
Resolve(cur, rest) ==
    IF rest = <<>> THEN <<cur>>
    ELSE LET c == Head(rest)
             r == Tail(rest)
         IN  IF c = "/" THEN Resolve(RootDir, r)
             ELSE IF cur \notin Directories THEN <<>>
             ELSE IF c = "." THEN Resolve(cur, r)
             ELSE IF c = ".."
                  THEN Resolve(IF cur = RootDir THEN RootDir ELSE Front(cur), r)
             ELSE LET nxt == Append(cur, c)
                  IN  CASE Kind(nxt) = "link" -> Resolve(cur, LinkTarget(nxt) \o r)
                        [] Kind(nxt) = "none" -> <<>>
                        [] OTHER -> Resolve(nxt, r)

\* Path::canonicalize : Result<PathBuf>; the empty path does not resolve
canonicalize(p) == IF p = <<>> THEN <<>> ELSE Resolve(cwd, p)

\* Path::exists : fs::metadata(p).is_ok(), which follows symbolic links
exists(p) == canonicalize(p) # <<>>

\* Path::is_file : fs::metadata(p), which follows symbolic links, is a file
is_file(p) ==
    LET c == canonicalize(p) IN c # <<>> /\ c[1] \in DOMAIN files

\* Path::parent : Option<&Path>
parent(p) ==
    IF p = <<>> \/ Last(p) = "/" THEN <<>> ELSE <<Front(p)>>

\* Path::file_name : Option<&OsStr>
file_name(p) ==
    IF p = <<>> \/ Last(p) \in {"/", ".."} THEN <<>> ELSE <<Last(p)>>

\* the path as the string it is written as
RECURSIVE Render(_)
Render(p) ==
    IF p = <<>> THEN ""
    ELSE IF Len(p) = 1 THEN p[1]
    ELSE IF Front(p) = <<"/">> THEN "/" \o Last(p)
    ELSE Render(Front(p)) \o "/" \o Last(p)

\* the last n components of p as they follow a separator in the string
TailString(p, n) ==
    IF n = 0 THEN ""
    ELSE "/" \o Render(SubSeq(p, Len(p) - n + 1, Len(p)))

\* str::starts_with on the strings instead of Path::starts_with
starts_with_str(p, base) ==
    \E x \in {"", "bar"}, n \in 0..Len(p) :
        Render(base) \o x \o TailString(p, n) = Render(p)

\* Path::starts_with : base's components are a prefix of p's components
starts_with(p, base) ==
    /\ Len(base) <= Len(p)
    /\ \A i \in 1..Len(base) : p[i] = base[i]

\* The file that fs::write(p, _) creates or truncates, <<>> when it fails
\* (p is a directory, or the directory to create it in does not exist).
write_target(p) ==
    LET c == canonicalize(p)
    IN  IF c # <<>>
        THEN IF c[1] \in DOMAIN files THEN c ELSE <<>>
        ELSE IF file_name(p) = <<>> \/ Last(p) = "." THEN <<>>
        ELSE LET d == IF Front(p) = <<>> THEN <<cwd>> ELSE canonicalize(Front(p))
             IN  IF d # <<>> /\ d[1] \in Directories
                 THEN <<Append(d[1], Last(p))>>
                 ELSE <<>>

\* files after fs::write(p, content) succeeded on the target t
fs_write(t, content) ==
    [q \in DOMAIN files \cup {t} |-> IF q = t THEN content ELSE files[q]]

----------------------------------------------------------------------------
(* Path::extension and str::to_lowercase.  A file name is a string; its   *)
(* extension is found by splitting it at its last '.', here by searching  *)
(* the stem and extension that concatenate to the name.                   *)

Stems == {"k", "l", "s", "t", "n", "U", "e"}
Extensions == {"wav", "mp3", "txt", "FLAC", "json"}

extension(p) ==
    IF file_name(p) = <<>> THEN <<>>
    ELSE LET name == file_name(p)[1]
             es == {e \in Extensions : \E st \in Stems : st \o "." \o e = name}
         IN  IF es = {} THEN <<>> ELSE <<CHOOSE e \in es : TRUE>>

to_lowercase(s) ==
    CASE s = "FLAC" -> "flac"
      [] s = "WAV" -> "wav"
      [] OTHER -> s

AUDIO_EXTENSIONS == {"wav", "mp3", "flac", "ogg", "aiff", "m4a"}

----------------------------------------------------------------------------
(* struct AllowedPaths *)

\* a source directory that is only set once
set_source_directory_once(path) ==
    source_directory' = IF source_directory = <<>> THEN <<path>>
                        ELSE source_directory

\* a source directory that is canonicalized and kept when that fails
set_source_directory_checked(path) ==
    source_directory' = IF canonicalize(path) = <<>> THEN source_directory
                        ELSE canonicalize(path)

\* set_source_directory: *self.source_directory.lock().unwrap() = Some(path)
set_source_directory(path) ==
    source_directory' = <<path>>

\* Vec::contains
contains(v, x) == \E i \in 1..Len(v) : v[i] = x

\* an add that canonicalizes first and adds nothing when that fails
add_allowed_path_canonical(path) ==
    allowed_paths' = IF canonicalize(path) = <<>>
                           \/ contains(allowed_paths, canonicalize(path)[1])
                     THEN allowed_paths
                     ELSE Append(allowed_paths, canonicalize(path)[1])

\* an add that puts the new path in front of the older ones
add_allowed_path_front(path) ==
    allowed_paths' = IF ~contains(allowed_paths, path)
                     THEN <<path>> \o allowed_paths
                     ELSE allowed_paths

\* add_allowed_path: push unless the Vec already contains the path
add_allowed_path(path) ==
    allowed_paths' = IF ~contains(allowed_paths, path)
                     THEN Append(allowed_paths, path)
                     ELSE allowed_paths

\* lines 45-51: the source directory, canonicalized now, is a prefix
source_allows(src, canonical) ==
    /\ src # <<>>
    /\ LET canonical_source == canonicalize(src[1])
       IN  /\ canonical_source # <<>>
           /\ starts_with(canonical, canonical_source[1])

\* the allowed paths compared as stored, not canonicalized
allowed_allows_raw(allowed, canonical) ==
    \E i \in 1..Len(allowed) :
        \/ starts_with(canonical, allowed[i])
        \/ canonical = allowed[i]

\* lines 54-61: some allowed path, canonicalized now, is a prefix or equal
allowed_allows(allowed, canonical) ==
    \E i \in 1..Len(allowed) :
        LET canonical_allowed == canonicalize(allowed[i])
        IN  /\ canonical_allowed # <<>>
            /\ \/ starts_with(canonical, canonical_allowed[1])
               \/ canonical = canonical_allowed[1]

\* the queried path compared as written, not canonicalized
is_path_allowed_raw(path) ==
    IF canonicalize(path) = <<>> THEN FALSE
    ELSE IF source_allows(source_directory, path) THEN TRUE
    ELSE allowed_allows(allowed_paths, path)

\* a path that does not canonicalize compared as written
is_path_allowed_lenient(path) ==
    LET canonical == IF canonicalize(path) = <<>> THEN <<path>>
                     ELSE canonicalize(path)
    IN  IF source_allows(source_directory, canonical[1]) THEN TRUE
        ELSE allowed_allows(allowed_paths, canonical[1])

is_path_allowed(path) ==
    LET canonical == canonicalize(path)
    IN  IF canonical = <<>> THEN FALSE
        ELSE IF source_allows(source_directory, canonical[1]) THEN TRUE
        ELSE allowed_allows(allowed_paths, canonical[1])

----------------------------------------------------------------------------
(* struct Sample, struct TournamentState and their serde_json form *)

Sample(path, score, comparisons) ==
    [path |-> path,
     filename |-> IF file_name(path) = <<>> THEN "" ELSE file_name(path)[1],
     score |-> score,
     comparisons |-> comparisons]

\* the source directory written under another member name
to_string_pretty_renamed(state) ==
    [kind |-> "json",
     body |-> << <<"samples", state.samples>>,
                 <<"current_round", state.current_round>>,
                 <<"comparisons_this_round", state.comparisons_this_round>>,
                 <<"current_comparison_index", state.current_comparison_index>>,
                 <<"advancement_threshold", state.advancement_threshold>>,
                 <<"sourceDirectory", state.source_directory>> >>]

\* serde_json::to_string_pretty(&state): a JSON object, one member per field
\* in declaration order
to_string_pretty(state) ==
    [kind |-> "json",
     body |-> << <<"samples", state.samples>>,
                 <<"current_round", state.current_round>>,
                 <<"comparisons_this_round", state.comparisons_this_round>>,
                 <<"current_comparison_index", state.current_comparison_index>>,
                 <<"advancement_threshold", state.advancement_threshold>>,
                 <<"source_directory", state.source_directory>> >>]

Member(body, key) ==
    LET is == {i \in 1..Len(body) : body[i][1] = key}
    IN  IF is = {} THEN <<>> ELSE <<body[CHOOSE i \in is : TRUE][2]>>

StateFields ==
    {"samples", "current_round", "comparisons_this_round",
     "current_comparison_index", "advancement_threshold", "source_directory"}

\* serde_json::from_str::<TournamentState>(&content): every field is looked up
\* by name; content that is no JSON object with all six members is an error
from_str(content) ==
    IF content.kind # "json" THEN <<>>
    ELSE IF \E k \in StateFields : Member(content.body, k) = <<>> THEN <<>>
    ELSE << [samples |-> Member(content.body, "samples")[1],
             current_round |-> Member(content.body, "current_round")[1],
             comparisons_this_round |->
                 Member(content.body, "comparisons_this_round")[1],
             current_comparison_index |->
                 Member(content.body, "current_comparison_index")[1],
             advancement_threshold |->
                 Member(content.body, "advancement_threshold")[1],
             source_directory |-> Member(content.body, "source_directory")[1]] >>

\* fs::read_to_string(p) : the content of the file p resolves to
read_to_string(p) ==
    IF is_file(p) THEN <<files[canonicalize(p)[1]]>> ELSE <<>>

----------------------------------------------------------------------------
(* WalkDir::new(root).follow_links(false): root, then every entry below   *)
(* it, depth first.  A symbolic link is yielded as an entry and never     *)
(* descended into.  The order of a directory's entries is the             *)
(* filesystem's: one listing order or its reverse.                        *)

NameOrder ==
    <<"data", "ext", "home", "link", "foo", "foobar", "out",
      "k.wav", "l.wav", "s.wav", "t.mp3", "n.txt", "U.FLAC", "README",
      "e.wav", "s.json">>

read_dir(d, rev) ==
    LET names == SelectSeq(IF rev THEN Reverse(NameOrder) ELSE NameOrder,
                           LAMBDA n : Kind(Append(d, n)) # "none")
    IN  [i \in 1..Len(names) |-> Append(d, names[i])]

\* whether the walk descends into the entry p
descends(p) == Kind(p) = "dir"

RECURSIVE WalkDir(_, _), WalkAll(_, _)
WalkDir(p, rev) ==
    <<p>> \o (IF descends(p) THEN WalkAll(read_dir(p, rev), rev) ELSE <<>>)
WalkAll(ps, rev) ==
    IF ps = <<>> THEN <<>> ELSE WalkDir(Head(ps), rev) \o WalkAll(Tail(ps), rev)

\* lines 122-140: the test an entry passes to become a Sample
is_audio_entry(entry_path) ==
    /\ is_file(entry_path)
    /\ extension(entry_path) # <<>>
    /\ to_lowercase(extension(entry_path)[1]) \in AUDIO_EXTENSIONS

RECURSIVE collect_samples(_)
collect_samples(entries) ==
    IF entries = <<>> THEN <<>>
    ELSE (IF is_audio_entry(Head(entries))
          THEN <<Sample(Head(entries), 0, 0)>> ELSE <<>>)
         \o collect_samples(Tail(entries))

----------------------------------------------------------------------------
(* What a command invocation returned and did.  ok: Ok(_) or Err(_);      *)
(* checked: the value is_path_allowed returned inside the invocation, if  *)
(* it was called; act: the OS-level action started ("none" if none);      *)
(* samples / state / url: the Ok value; arg: the TournamentState passed;  *)
(* min_score: the threshold passed; prev: the source directory the        *)
(* invocation found.                                                      *)

Response(op, path) ==
    [op |-> op, path |-> path, ok |-> FALSE, checked |-> <<>>, act |-> "none",
     samples |-> <<>>, state |-> <<>>, arg |-> <<>>, url |-> <<>>,
     min_score |-> <<>>, prev |-> source_directory]

----------------------------------------------------------------------------
(* The Tauri commands *)

\* a scan that stores the directory before it looks whether it exists
scan_directory_unchecked(directory, rev) ==
    /\ UNCHANGED <<allowed_paths, files>>
    /\ IF ~exists(directory)
       THEN /\ set_source_directory(directory)
            /\ last' = Response("scan_directory", directory)
       ELSE /\ set_source_directory(canonicalize(directory)[1])
            /\ last' = [Response("scan_directory", directory) EXCEPT
                   !.ok = TRUE,
                   !.samples = collect_samples(
                                   WalkDir(canonicalize(directory)[1], rev))]

\* a scan that stores the directory as it was passed
scan_directory_raw(directory, rev) ==
    /\ UNCHANGED <<allowed_paths, files>>
    /\ IF ~exists(directory) \/ canonicalize(directory) = <<>>
       THEN /\ UNCHANGED source_directory
            /\ last' = Response("scan_directory", directory)
       ELSE /\ set_source_directory(directory)
            /\ last' = [Response("scan_directory", directory) EXCEPT
                   !.ok = TRUE,
                   !.samples = collect_samples(
                                   WalkDir(canonicalize(directory)[1], rev))]

scan_directory(directory, rev) ==
    /\ UNCHANGED <<allowed_paths, files>>
    /\ IF ~exists(directory)
       THEN /\ UNCHANGED source_directory
            /\ last' = Response("scan_directory", directory)
       ELSE LET canonical_path == canonicalize(directory)
            IN  IF canonical_path = <<>>
                THEN /\ UNCHANGED source_directory
                     /\ last' = Response("scan_directory", directory)
                ELSE /\ set_source_directory(canonical_path[1])
                     /\ last' = [Response("scan_directory", directory) EXCEPT
                            !.ok = TRUE,
                            !.samples = collect_samples(
                                            WalkDir(canonical_path[1], rev))]

save_progress(state, file_path) ==
    LET target == write_target(file_path)
    IN  /\ IF parent(file_path) # <<>>
           THEN add_allowed_path(parent(file_path)[1])
           ELSE UNCHANGED allowed_paths
        /\ UNCHANGED source_directory
        /\ IF target = <<>>
           THEN /\ UNCHANGED files
                /\ last' = [Response("save_progress", file_path) EXCEPT
                               !.arg = <<state>>]
           ELSE /\ files' = fs_write(target[1], to_string_pretty(state))
                /\ last' = [Response("save_progress", file_path) EXCEPT
                               !.ok = TRUE, !.arg = <<state>>]

\* a load that does not register the parent of file_path
load_progress_unregistered(file_path) ==
    LET content == read_to_string(file_path)
        state == IF content = <<>> THEN <<>> ELSE from_str(content[1])
    IN  /\ UNCHANGED <<allowed_paths, files>>
        /\ IF state = <<>>
           THEN /\ UNCHANGED source_directory
                /\ last' = Response("load_progress", file_path)
           ELSE /\ set_source_directory(state[1].source_directory)
                /\ last' = [Response("load_progress", file_path) EXCEPT
                               !.ok = TRUE, !.state = state]

load_progress(file_path) ==
    LET content == read_to_string(file_path)
        state == IF content = <<>> THEN <<>> ELSE from_str(content[1])
    IN  /\ IF parent(file_path) # <<>>
           THEN add_allowed_path(parent(file_path)[1])
           ELSE UNCHANGED allowed_paths
        /\ UNCHANGED files
        /\ IF state = <<>>
           THEN /\ UNCHANGED source_directory
                /\ last' = Response("load_progress", file_path)
           ELSE /\ set_source_directory(state[1].source_directory)
                /\ last' = [Response("load_progress", file_path) EXCEPT
                               !.ok = TRUE, !.state = state]

\* a filter that drops the samples whose score equals the threshold
RECURSIVE good_samples_strict(_, _)
good_samples_strict(samples, min_score) ==
    IF samples = <<>> THEN <<>>
    ELSE (IF Head(samples).score > min_score
          THEN <<Head(samples).path>> ELSE <<>>)
         \o good_samples_strict(Tail(samples), min_score)

\* lines 199-203: the paths of the samples with score >= min_score, in order
RECURSIVE good_samples(_, _)
good_samples(samples, min_score) ==
    IF samples = <<>> THEN <<>>
    ELSE (IF Head(samples).score >= min_score
          THEN <<Head(samples).path>> ELSE <<>>)
         \o good_samples(Tail(samples), min_score)

\* good_samples.join("\n"): the lines of the exported text
Text(lines) == [kind |-> "text", body |-> lines]

export_results(samples, file_path, min_score) ==
    LET target == write_target(file_path)
    IN  /\ IF parent(file_path) # <<>>
           THEN add_allowed_path(parent(file_path)[1])
           ELSE UNCHANGED allowed_paths
        /\ UNCHANGED source_directory
        /\ IF target = <<>>
           THEN /\ UNCHANGED files
                /\ last' = [Response("export_results", file_path) EXCEPT
                               !.samples = samples,
                               !.min_score = <<min_score>>]
           ELSE /\ files' = fs_write(target[1],
                                     Text(good_samples(samples, min_score)))
                /\ last' = [Response("export_results", file_path) EXCEPT
                               !.ok = TRUE, !.samples = samples,
                               !.min_score = <<min_score>>]

get_audio_file_url(file_path) ==
    /\ UNCHANGED <<source_directory, allowed_paths, files>>
    /\ IF ~exists(file_path)
       THEN last' = Response("get_audio_file_url", file_path)
       ELSE IF ~is_path_allowed(file_path)
       THEN last' = [Response("get_audio_file_url", file_path) EXCEPT
                        !.checked = <<FALSE>>]
       ELSE last' = [Response("get_audio_file_url", file_path) EXCEPT
                        !.checked = <<TRUE>>, !.ok = TRUE,
                        !.url = <<file_path>>]

\* the targets the #[cfg(target_os = ...)] blocks are written for
TargetOs == {"macos", "windows", "linux"}

\* lines 244-268: the command reveal_in_finder spawns on each target
reveal_command(os, file_path) ==
    CASE os = "macos" -> "open"
      [] os = "windows" -> "explorer"
      [] os = "linux" -> IF parent(file_path) # <<>> THEN "xdg-open" ELSE "none"

\* reveal_in_finder without the is_path_allowed test of lines 240-242
reveal_in_finder_ungated(file_path) ==
    /\ UNCHANGED <<source_directory, allowed_paths, files>>
    /\ IF ~exists(file_path)
       THEN last' = Response("reveal_in_finder", file_path)
       ELSE \E os \in TargetOs, spawned \in BOOLEAN :
               last' = [Response("reveal_in_finder", file_path) EXCEPT
                        !.act = reveal_command(os, file_path),
                        !.ok = (spawned \/ reveal_command(os, file_path) = "none")]

\* os: the target the binary was built for; spawned: Command::spawn succeeded
reveal_in_finder(file_path) ==
    /\ UNCHANGED <<source_directory, allowed_paths, files>>
    /\ IF ~exists(file_path)
       THEN last' = Response("reveal_in_finder", file_path)
       ELSE IF ~is_path_allowed(file_path)
       THEN last' = [Response("reveal_in_finder", file_path) EXCEPT
                        !.checked = <<FALSE>>]
       ELSE \E os \in TargetOs, spawned \in BOOLEAN :
               last' = [Response("reveal_in_finder", file_path) EXCEPT
                        !.checked = <<TRUE>>,
                        !.act = reveal_command(os, file_path),
                        !.ok = (spawned \/ reveal_command(os, file_path) = "none")]

\* lines 288-333: what copy_file_to_clipboard runs on each target
copy_command(os) ==
    CASE os = "macos" -> "NSPasteboard"
      [] os = "windows" -> "powershell"
      [] os = "linux" -> "xclip"

\* on macOS the pasteboard calls return no error
copy_file_to_clipboard(file_path) ==
    /\ UNCHANGED <<source_directory, allowed_paths, files>>
    /\ IF ~exists(file_path)
       THEN last' = Response("copy_file_to_clipboard", file_path)
       ELSE IF ~is_path_allowed(file_path)
       THEN last' = [Response("copy_file_to_clipboard", file_path) EXCEPT
                        !.checked = <<FALSE>>]
       ELSE \E os \in TargetOs, spawned \in BOOLEAN :
               last' = [Response("copy_file_to_clipboard", file_path) EXCEPT
                        !.checked = <<TRUE>>,
                        !.act = copy_command(os),
                        !.ok = (spawned \/ os = "macos")]

----------------------------------------------------------------------------
(* The requests the front-end sends *)

ScanInputs ==
    { <<"/", "link">>, <<"/", "data">>, <<"/", "nope">> }

\* /link/out names, through two symbolic links, the directory /ext
FileInputs ==
    { <<"/", "home", "s.json">>, <<"s.json">>, <<"/", "link", "out">> }

GatedInputs ==
    { <<"/", "data", "foo", "k.wav">>,
      <<"/", "link", "k.wav">>,
      <<"/", "data", "foo", "..", "foobar", "s.wav">>,
      <<"/", "data", "foo", "l.wav">>,
      <<"/", "ext", "e.wav">>,
      <<"/", "home", "s.json">>,
      <<"/", "data", "foo", "gone.wav">> }

ScoredSamples ==
    << Sample(<<"/", "data", "foo", "k.wav">>, 3, 1),
       Sample(<<"/", "data", "foobar", "s.wav">>, 5, 2),
       Sample(<<"/", "data", "foobar", "t.mp3">>, 7, 1) >>

\* advancement_threshold is an f32; its values are written in hundredths
StateInputs ==
    { [samples |-> SubSeq(ScoredSamples, 1, 2),
       current_round |-> 1,
       comparisons_this_round |-> << <<0, 1>> >>,
       current_comparison_index |-> 0,
       advancement_threshold |-> 50,
       source_directory |-> <<"/", "link">>],
      [samples |-> Reverse(SubSeq(ScoredSamples, 1, 2)),
       current_round |-> 2,
       comparisons_this_round |-> << <<1, 0>>, <<0, 1>> >>,
       current_comparison_index |-> 1,
       advancement_threshold |-> 75,
       source_directory |-> <<"/", "nope">>] }

SampleInputs == { ScoredSamples }

MinScoreInputs == { 5, 8 }

----------------------------------------------------------------------------

\* the request threads that call into AllowedPaths at the same time
NumThreads == 2
Threads == 1..NumThreads

\* The call a thread is in: its arguments, its local canonical and its
\* return value.  seen is history, not program state: the answers
\* is_path_allowed would have given against the two registries as they
\* were at the instants since the call was made.
Frame(op, path) ==
    [op |-> op, path |-> path, canonical |-> <<>>, ret |-> <<>>, seen |-> {}]

Init ==
    /\ source_directory = <<>>
    /\ allowed_paths = <<>>
    /\ files = [q \in InitialFiles |-> Blob]
    /\ last = Response("init", <<>>)
    /\ pc = [t \in Threads |-> "idle"]
    /\ frame = [t \in Threads |-> Frame("none", <<>>)]
    /\ mutex_source = 0
    /\ mutex_allowed = 0

Scan ==
    /\ \E d \in ScanInputs, rev \in BOOLEAN : scan_directory(d, rev)
    /\ UNCHANGED thread_vars
Save ==
    /\ \E st \in StateInputs, f \in FileInputs : save_progress(st, f)
    /\ UNCHANGED thread_vars
Load ==
    /\ \E f \in FileInputs : load_progress(f)
    /\ UNCHANGED thread_vars
Export ==
    /\ \E ss \in SampleInputs, f \in FileInputs, m \in MinScoreInputs :
           export_results(ss, f, m)
    /\ UNCHANGED thread_vars
GetUrl ==
    /\ \E f \in GatedInputs : get_audio_file_url(f)
    /\ UNCHANGED thread_vars
Reveal ==
    /\ \E f \in GatedInputs : reveal_in_finder(f)
    /\ UNCHANGED thread_vars
Copy ==
    /\ \E f \in GatedInputs : copy_file_to_clipboard(f)
    /\ UNCHANGED thread_vars

\* one command at a time
Next == Scan \/ Save \/ Load \/ Export \/ GetUrl \/ Reveal \/ Copy

Spec == Init /\ [][Next]_vars

----------------------------------------------------------------------------
(* The methods of AllowedPaths called from several request threads at     *)
(* once, one step per lock operation and per access to a registry.  A     *)
(* MutexGuard is released where the code drops it.                        *)

\* Mutex::lock returns once no other thread holds the guard
lock_unreliable(m) == TRUE

lock(m) == m = 0

ConcRoots == { <<"/", "link">>, <<"/", "data">> }
ConcQueries == { <<"/", "link", "k.wav">>, <<"/", "data", "foobar", "s.wav">> }

\* what is_path_allowed answers when it runs at one instant against the
\* source directory src and the allowed paths allowed
answer_at(src, allowed, path) ==
    LET canonical == canonicalize(path)
    IN  /\ canonical # <<>>
        /\ \/ source_allows(src, canonical[1])
           \/ allowed_allows(allowed, canonical[1])

\* the frames after the registries became (src, allowed): every
\* is_path_allowed call in progress has seen one more registry state
observe(src, allowed) ==
    [u \in Threads |->
        IF frame[u].op = "is_path_allowed" /\ pc[u] # "idle"
        THEN [frame[u] EXCEPT
                 !.seen = @ \cup {answer_at(src, allowed, frame[u].path)}]
        ELSE frame[u]]

\* a request thread enters one of the three methods
call(t) ==
    /\ pc[t] = "idle"
    /\ \/ \E path \in ConcRoots :
            /\ frame' = [frame EXCEPT ![t] = Frame("set_source_directory", path)]
            /\ pc' = [pc EXCEPT ![t] = "ssd_lock"]
       \/ \E path \in ConcRoots :
            /\ frame' = [frame EXCEPT ![t] = Frame("add_allowed_path", path)]
            /\ pc' = [pc EXCEPT ![t] = "aap_lock"]
       \/ \E path \in ConcQueries :
            /\ frame' = [frame EXCEPT ![t] =
                   [Frame("is_path_allowed", path) EXCEPT
                       !.seen = {answer_at(source_directory, allowed_paths,
                                           path)}]]
            /\ pc' = [pc EXCEPT ![t] = "ipa_canonicalize"]
    /\ UNCHANGED <<source_directory, allowed_paths, files, last,
                   mutex_source, mutex_allowed>>

\* line 26: self.source_directory.lock().unwrap()
set_source_directory_lock(t) ==
    /\ pc[t] = "ssd_lock"
    /\ lock(mutex_source)
    /\ mutex_source' = t
    /\ pc' = [pc EXCEPT ![t] = "ssd_store"]
    /\ UNCHANGED <<source_directory, allowed_paths, files, last, frame,
                   mutex_allowed>>

\* line 26: the assignment; the temporary guard is dropped with the statement
set_source_directory_store(t) ==
    /\ pc[t] = "ssd_store"
    /\ set_source_directory(frame[t].path)
    /\ mutex_source' = 0
    /\ pc' = [pc EXCEPT ![t] = "idle"]
    /\ frame' = observe(<<frame[t].path>>, allowed_paths)
    /\ UNCHANGED <<allowed_paths, files, last, mutex_allowed>>

\* line 31: let mut paths = self.allowed_paths.lock().unwrap()
add_allowed_path_lock(t) ==
    /\ pc[t] = "aap_lock"
    /\ lock(mutex_allowed)
    /\ mutex_allowed' = t
    /\ pc' = [pc EXCEPT ![t] = "aap_contains"]
    /\ UNCHANGED <<source_directory, allowed_paths, files, last, frame,
                   mutex_source>>

\* line 32: if !paths.contains(&path)
add_allowed_path_contains(t) ==
    /\ pc[t] = "aap_contains"
    /\ pc' = [pc EXCEPT ![t] = IF ~contains(allowed_paths, frame[t].path)
                                 THEN "aap_push" ELSE "aap_unlock"]
    /\ UNCHANGED <<source_directory, allowed_paths, files, last, frame,
                   mutex_source, mutex_allowed>>

\* a push that drops the paths stored before
add_allowed_path_push_replace(t) ==
    /\ pc[t] = "aap_push"
    /\ allowed_paths' = <<frame[t].path>>
    /\ pc' = [pc EXCEPT ![t] = "aap_unlock"]
    /\ frame' = observe(source_directory, <<frame[t].path>>)
    /\ UNCHANGED <<source_directory, files, last,
                   mutex_source, mutex_allowed>>

\* line 33: paths.push(path)
add_allowed_path_push(t) ==
    /\ pc[t] = "aap_push"
    /\ allowed_paths' = Append(allowed_paths, frame[t].path)
    /\ pc' = [pc EXCEPT ![t] = "aap_unlock"]
    /\ frame' = observe(source_directory,
                        Append(allowed_paths, frame[t].path))
    /\ UNCHANGED <<source_directory, files, last,
                   mutex_source, mutex_allowed>>

\* line 35: paths goes out of scope
add_allowed_path_unlock(t) ==
    /\ pc[t] = "aap_unlock"
    /\ mutex_allowed' = 0
    /\ pc' = [pc EXCEPT ![t] = "idle"]
    /\ UNCHANGED <<source_directory, allowed_paths, files, last, frame,
                   mutex_source>>

\* lines 39-42: canonicalize the queried path, return false if that fails
is_path_allowed_canonicalize(t) ==
    /\ pc[t] = "ipa_canonicalize"
    /\ IF canonicalize(frame[t].path) = <<>>
       THEN /\ frame' = [frame EXCEPT ![t].ret = <<FALSE>>]
            /\ pc' = [pc EXCEPT ![t] = "idle"]
       ELSE /\ frame' = [frame EXCEPT
                            ![t].canonical = canonicalize(frame[t].path)]
            /\ pc' = [pc EXCEPT ![t] = "ipa_lock_source"]
    /\ UNCHANGED <<source_directory, allowed_paths, files, last,
                   mutex_source, mutex_allowed>>

\* line 45: self.source_directory.lock().unwrap()
is_path_allowed_lock_source(t) ==
    /\ pc[t] = "ipa_lock_source"
    /\ lock(mutex_source)
    /\ mutex_source' = t
    /\ pc' = [pc EXCEPT ![t] = "ipa_source"]
    /\ UNCHANGED <<source_directory, allowed_paths, files, last, frame,
                   mutex_allowed>>

\* a test against the source directory whose guard lives on to the end of
\* the function
is_path_allowed_source_held(t) ==
    /\ pc[t] = "ipa_source"
    /\ IF source_allows(source_directory, frame[t].canonical[1])
       THEN /\ frame' = [frame EXCEPT ![t].ret = <<TRUE>>]
            /\ pc' = [pc EXCEPT ![t] = "idle"]
            /\ mutex_source' = 0
       ELSE /\ UNCHANGED <<frame, mutex_source>>
            /\ pc' = [pc EXCEPT ![t] = "ipa_lock_allowed"]
    /\ UNCHANGED <<source_directory, allowed_paths, files, last, mutex_allowed>>

\* lines 45-51: the test against the source directory; the guard is dropped
\* on return and at the end of the if let
is_path_allowed_source(t) ==
    /\ pc[t] = "ipa_source"
    /\ mutex_source' = 0
    /\ IF source_allows(source_directory, frame[t].canonical[1])
       THEN /\ frame' = [frame EXCEPT ![t].ret = <<TRUE>>]
            /\ pc' = [pc EXCEPT ![t] = "idle"]
       ELSE /\ UNCHANGED frame
            /\ pc' = [pc EXCEPT ![t] = "ipa_lock_allowed"]
    /\ UNCHANGED <<source_directory, allowed_paths, files, last, mutex_allowed>>

\* line 54: let allowed = self.allowed_paths.lock().unwrap()
is_path_allowed_lock_allowed(t) ==
    /\ pc[t] = "ipa_lock_allowed"
    /\ lock(mutex_allowed)
    /\ mutex_allowed' = t
    /\ pc' = [pc EXCEPT ![t] = "ipa_allowed"]
    /\ UNCHANGED <<source_directory, allowed_paths, files, last, frame,
                   mutex_source>>

\* lines 55-63: the loop over the allowed paths, then the return
is_path_allowed_allowed(t) ==
    /\ pc[t] = "ipa_allowed"
    /\ mutex_allowed' = 0
    /\ frame' = [frame EXCEPT ![t].ret =
                    <<allowed_allows(allowed_paths, frame[t].canonical[1])>>]
    /\ pc' = [pc EXCEPT ![t] = "idle"]
    /\ UNCHANGED <<source_directory, allowed_paths, files, last, mutex_source>>

NextConc ==
    \E t \in Threads :
        \/ call(t)
        \/ set_source_directory_lock(t)
        \/ set_source_directory_store(t)
        \/ add_allowed_path_lock(t)
        \/ add_allowed_path_contains(t)
        \/ add_allowed_path_push(t)
        \/ add_allowed_path_unlock(t)
        \/ is_path_allowed_canonicalize(t)
        \/ is_path_allowed_lock_source(t)
        \/ is_path_allowed_source(t)
        \/ is_path_allowed_lock_allowed(t)
        \/ is_path_allowed_allowed(t)

SpecConc == Init /\ [][NextConc]_vars

\* Mutex::lock of thread t returning with the guard
acquire(t) ==
    \/ set_source_directory_lock(t)
    \/ add_allowed_path_lock(t)
    \/ is_path_allowed_lock_source(t)
    \/ is_path_allowed_lock_allowed(t)

\* a step of thread t that waits for nothing
proceed(t) ==
    \/ set_source_directory_store(t)
    \/ add_allowed_path_contains(t)
    \/ add_allowed_path_push(t)
    \/ add_allowed_path_unlock(t)
    \/ is_path_allowed_canonicalize(t)
    \/ is_path_allowed_source(t)
    \/ is_path_allowed_allowed(t)

\* Fair scheduling: a thread inside a method keeps running, and a thread
\* waiting in Mutex::lock gets the mutex if it is free again and again.
\* Nothing obliges an idle thread to make another call.
SpecConcFair ==
    /\ Init
    /\ [][NextConc]_vars
    /\ \A t \in Threads : WF_vars(proceed(t)) /\ SF_vars(acquire(t))

----------------------------------------------------------------------------
(* The paths the properties below are evaluated on, and location          *)
(* containment stated without Path::starts_with: r is p or one of the     *)
(* directories above p.                                                   *)

ProbePaths ==
    GatedInputs \cup FileInputs \cup ScanInputs
        \cup {<<"/", "data", "foo">>, <<"/", "data", "foobar">>, <<"/", "ext">>,
              <<"/", "home">>, <<"/", "data", "foo", "out", "e.wav">>,
              <<"/", "data", "foobar", "s.wav">>}

RECURSIVE SelfAndAncestors(_)
SelfAndAncestors(p) ==
    IF Len(p) <= 1 THEN {p} ELSE {p} \cup SelfAndAncestors(Front(p))

Under(p, r) == r \in SelfAndAncestors(p)

\* the roots the allow-list holds, as stored
StoredRoots ==
    {source_directory[i] : i \in 1..Len(source_directory)}
        \cup {allowed_paths[i] : i \in 1..Len(allowed_paths)}

\* the location a stored root names now (none if it does not resolve)
Location(r) == canonicalize(r)

GatedOps == {"get_audio_file_url", "reveal_in_finder", "copy_file_to_clipboard"}

----------------------------------------------------------------------------
\* C1: a gated command (get_audio_file_url, reveal_in_finder,
\* copy_file_to_clipboard) starts its OS-level action or returns Ok only if
\* is_path_allowed returned true inside that invocation; when the path is
\* missing or is_path_allowed returned false it returns Err and starts no
\* OS-level action.
C1_GatedOnlyIfAllowed ==
    last.op \in GatedOps =>
        /\ (last.ok \/ last.act # "none") =>
               (last.checked = <<TRUE>> /\ is_path_allowed(last.path))
        /\ (~exists(last.path) \/ ~is_path_allowed(last.path)
                \/ last.checked # <<TRUE>>) =>
               (~last.ok /\ last.act = "none" /\ last.url = <<>>)

C1_Witness ==
    /\ last.op = "reveal_in_finder"
    /\ last.ok
    /\ last.act # "none"
    /\ last.checked = <<TRUE>>

\* the locations the stored roots name now
ApprovedLocations ==
    {Location(r)[1] : r \in {x \in StoredRoots : Location(x) # <<>>}}

\* C2: whatever commands have run, a path whose canonical form lies under
\* neither the location of the source directory nor the location of any
\* allowed path is not allowed.
C2_OutsideDenied ==
    LET approved == ApprovedLocations
    IN  \A p \in ProbePaths :
            (exists(p) /\ \A r \in approved : ~Under(canonicalize(p)[1], r))
                => ~is_path_allowed(p)

C2_Witness ==
    /\ source_directory # <<>>
    /\ allowed_paths # <<>>
    /\ ApprovedLocations # {}
    /\ \E p \in ProbePaths :
        /\ exists(p)
        /\ \A r \in ApprovedLocations : ~Under(canonicalize(p)[1], r)
        /\ \E r \in StoredRoots : starts_with(p, r)
        /\ ~is_path_allowed(p)

\* C3: an existing path under the location of the source directory or of
\* an allowed path is allowed, also when it is written through a symbolic
\* link or with ".." components.
C3_InsideAllowed ==
    LET approved == ApprovedLocations
    IN  \A p \in ProbePaths :
            (exists(p) /\ \E r \in approved : Under(canonicalize(p)[1], r))
                => is_path_allowed(p)

C3_Witness ==
    /\ source_directory = << <<"/", "data", "foo">> >>
    /\ allowed_paths = <<>>
    /\ canonicalize(<<"/", "link", "k.wav">>) # << <<"/", "link", "k.wav">> >>
    /\ is_path_allowed(<<"/", "link", "k.wav">>)
    /\ last.op = "get_audio_file_url" /\ last.path = <<"/", "link", "k.wav">>
    /\ last.ok

\* C4: a path that does not exist is never allowed, also when a stored
\* root is an ancestor of it as written.
C4_MissingDenied ==
    \A p \in ProbePaths : ~exists(p) => ~is_path_allowed(p)

C4_Witness ==
    \E p \in ProbePaths :
        /\ ~exists(p)
        /\ \E r \in StoredRoots : Under(p, r) /\ exists(r)
        /\ ~is_path_allowed(p)

\* the components of r are the first components of p
SegmentPrefix(r, p) == Len(r) <= Len(p) /\ SubSeq(p, 1, Len(r)) = r

\* C5: a stored root lets an existing path through only if the components
\* of the root's canonical form are the first components of the path's
\* canonical form; a root at /data/foo does not let /data/foobar/s.wav
\* through.
C5_SegmentWise ==
    \A p \in ProbePaths :
        exists(p) =>
            LET c == canonicalize(p)[1]
            IN  /\ source_allows(source_directory, c) =>
                       SegmentPrefix(Location(source_directory[1])[1], c)
                /\ \A i \in 1..Len(allowed_paths) :
                       allowed_allows(<<allowed_paths[i]>>, c) =>
                           /\ Location(allowed_paths[i]) # <<>>
                           /\ SegmentPrefix(Location(allowed_paths[i])[1], c)

C5_Witness ==
    /\ <<"/", "data", "foo">> \in ApprovedLocations
    /\ ApprovedLocations \subseteq {<<"/", "data", "foo">>, <<"/", "home">>}
    /\ exists(<<"/", "data", "foobar", "s.wav">>)
    /\ ~is_path_allowed(<<"/", "data", "foobar", "s.wav">>)
    /\ is_path_allowed(<<"/", "data", "foo", "k.wav">>)

\* C6: every Sample a successful scan returns denotes a regular file
\* located inside the canonical scanned root, whether a symbolic link met on
\* the way is a link to a directory or to a single file.
C6_ScanStaysInside ==
    (last.op = "scan_directory" /\ last.ok) =>
        \A i \in 1..Len(last.samples) :
            LET c == canonicalize(last.samples[i].path)
            IN  /\ c # <<>>
                /\ c[1] \in DOMAIN files
                /\ Under(c[1], canonicalize(last.path)[1])

\* the source directory a successful scan or load has to leave
NewSource ==
    IF last.op = "scan_directory" THEN canonicalize(last.path)[1]
    ELSE last.state[1].source_directory

\* C7: after a successful scan(R2), or a successful load of a state whose
\* source_directory is R2, the source directory is R2 alone; a path under
\* the previous source directory that is under neither R2 nor an allowed
\* path is no longer allowed; when R2 does not exist only the allowed paths
\* let a path through.
C7_SourceOverwritten ==
    (last.op \in {"scan_directory", "load_progress"} /\ last.ok) =>
        /\ source_directory = <<NewSource>>
        /\ \A p \in ProbePaths :
            ( /\ exists(p)
              /\ last.prev # <<>>
              /\ Location(last.prev[1]) # <<>>
              /\ Under(canonicalize(p)[1], Location(last.prev[1])[1])
              /\ ~(/\ Location(NewSource) # <<>>
                   /\ Under(canonicalize(p)[1], Location(NewSource)[1]))
              /\ \A i \in 1..Len(allowed_paths) :
                    ~(/\ Location(allowed_paths[i]) # <<>>
                      /\ Under(canonicalize(p)[1], Location(allowed_paths[i])[1])) )
            => ~is_path_allowed(p)
        /\ ~exists(NewSource) =>
            \A p \in ProbePaths :
                is_path_allowed(p) =>
                    \E i \in 1..Len(allowed_paths) :
                        /\ Location(allowed_paths[i]) # <<>>
                        /\ Under(canonicalize(p)[1], Location(allowed_paths[i])[1])

C7_Witness ==
    /\ last.op = "load_progress"
    /\ last.ok
    /\ last.prev = << <<"/", "data">> >>
    /\ source_directory = << <<"/", "nope">> >>
    /\ ~exists(<<"/", "nope">>)
    /\ exists(<<"/", "data", "foobar", "s.wav">>)
    /\ ~is_path_allowed(<<"/", "data", "foobar", "s.wav">>)

\* a load that parsed a state whose source_directory does not canonicalize
LoadedMissingSource ==
    /\ last.op = "load_progress"
    /\ last.state # <<>>
    /\ canonicalize(last.state[1].source_directory) = <<>>

\* C8 as claimed: set_source_directory with a path that cannot be
\* canonicalized is a no-op; the source directory stored before is kept.
C8_NoOpOnFailure ==
    (LoadedMissingSource /\ last.prev # <<>>) => source_directory = last.prev

\* C8 as amended: set_source_directory with a path that cannot be
\* canonicalized surfaces no error and stores the path as given, replacing
\* the source directory stored before; no path is then allowed through the
\* source directory.
C8_StoredAsGiven ==
    LoadedMissingSource =>
        /\ last.ok
        /\ source_directory = <<last.state[1].source_directory>>
        /\ \A p \in ProbePaths :
            exists(p) => ~source_allows(source_directory, canonicalize(p)[1])

C8_Witness ==
    /\ LoadedMissingSource
    /\ last.prev # <<>>
    /\ exists(last.prev[1])
    /\ source_directory # last.prev

C9_AddedOnce ==
    /\ \A i, j \in 1..Len(allowed_paths) :
          i # j => allowed_paths[i] # allowed_paths[j]
    /\ \A t \in Threads :
          (frame[t].op = "add_allowed_path" /\ pc[t] = "idle") =>
              Cardinality({i \in 1..Len(allowed_paths) :
                              allowed_paths[i] = frame[t].path}) = 1

\* two threads add the same path at once: one has pushed it and still holds
\* the lock, the other waits for the lock
C9_Witness ==
    \E t1, t2 \in Threads :
        /\ t1 # t2
        /\ frame[t1].op = "add_allowed_path"
        /\ frame[t2].op = "add_allowed_path"
        /\ frame[t1].path = frame[t2].path
        /\ pc[t1] = "aap_unlock"
        /\ pc[t2] = "aap_lock"
        /\ contains(allowed_paths, frame[t1].path)

----------------------------------------------------------------------------
(* export_results as a function of its arguments: every sequence of up to *)
(* MaxSamples samples over a pool of paths and scores, and thresholds     *)
(* below, between, at and above the scores.                               *)

MaxSamples == 3

ExportScores == { 0 - 2, 3, 5, 7 }

ExportThresholds == { 0 - 2, 4, 5, 8 }

SamplePool ==
    { Sample(q, s, 0) : q \in { <<"/", "data", "foo", "k.wav">>,
                                <<"/", "data", "foobar", "s.wav">> },
                        s \in ExportScores }

RECURSIVE SeqsUpTo(_, _)
SeqsUpTo(S, n) ==
    IF n = 0 THEN { <<>> }
    ELSE LET shorter == SeqsUpTo(S, n - 1)
         IN  shorter \cup { Append(ss, x) : ss \in shorter, x \in S }

ExportDestination == <<"/", "home", "good.txt">>

\* the arguments of one invocation, held until the command runs
InitExport ==
    /\ source_directory = <<>>
    /\ allowed_paths = <<>>
    /\ files = [q \in InitialFiles |-> Blob]
    /\ \E ss \in SeqsUpTo(SamplePool, MaxSamples) \cup { ScoredSamples },
          m \in ExportThresholds :
           last = [Response("invoke", ExportDestination) EXCEPT
                       !.samples = ss, !.min_score = <<m>>]
    /\ pc = [t \in Threads |-> "idle"]
    /\ frame = [t \in Threads |-> Frame("none", <<>>)]
    /\ mutex_source = 0
    /\ mutex_allowed = 0

ExportInvoked ==
    /\ last.op = "invoke"
    /\ export_results(last.samples, last.path, last.min_score[1])
    /\ UNCHANGED thread_vars

NextExport == ExportInvoked

SpecExport == InitExport /\ [][NextExport]_vars

\* the positions of the samples the threshold keeps
Kept(samples, min_score) ==
    { i \in 1..Len(samples) : samples[i].score >= min_score }

\* the k-th kept position, counted from the front
KeptAt(kept, k) ==
    CHOOSE i \in kept : Cardinality({ j \in kept : j < i }) = k - 1

\* the lines of the file the last export wrote
ExportedLines == files[write_target(last.path)[1]].body

(* C11: after a successful export the written file holds exactly the      *)
(* paths of the samples whose score is at least min_score (a score equal  *)
(* to the threshold included), one per line, in the order the samples     *)
(* had in the argument.                                                   *)
C11_ExportsGoodSamples ==
    (last.op = "export_results" /\ last.ok) =>
        LET kept == Kept(last.samples, last.min_score[1])
        IN  /\ files[write_target(last.path)[1]].kind = "text"
            /\ Len(ExportedLines) = Cardinality(kept)
            /\ \A k \in 1..Len(ExportedLines) :
                   ExportedLines[k] = last.samples[KeptAt(kept, k)].path

\* scores 3, 5, 7 with threshold 5: the score-5 and score-7 paths
C11_Witness ==
    /\ last.op = "export_results" /\ last.ok
    /\ last.samples = ScoredSamples
    /\ last.min_score = <<5>>
    /\ ExportedLines = << ScoredSamples[2].path, ScoredSamples[3].path >>

----------------------------------------------------------------------------
\* the paths of the samples the last command returned
SamplePaths == { last.samples[i].path : i \in 1..Len(last.samples) }

\* the regular files located under the root r whose extension, lowercased,
\* is one of AUDIO_EXTENSIONS
AudioFilesUnder(r) ==
    { q \in DOMAIN files :
        /\ Under(q, r)
        /\ extension(q) # <<>>
        /\ to_lowercase(extension(q)[1]) \in AUDIO_EXTENSIONS }

\* C12: a successful scan returns exactly the files under the canonical root
\* whose extension, compared case-insensitively, is an audio extension, each
\* once, with score 0 and comparisons 0; directories, files without an
\* extension and files with another extension are not returned.
C12_ScanExactlyAudioFiles ==
    (last.op = "scan_directory" /\ last.ok) =>
        /\ SamplePaths = AudioFilesUnder(canonicalize(last.path)[1])
        /\ Cardinality(SamplePaths) = Len(last.samples)
        /\ \A i \in 1..Len(last.samples) :
               last.samples[i].score = 0 /\ last.samples[i].comparisons = 0

\* what the scan does return: the audio files under the root and, besides
\* them, only symbolic links with an audio extension that lead to a file
ScanExactApartFromLinks ==
    (last.op = "scan_directory" /\ last.ok) =>
        /\ AudioFilesUnder(canonicalize(last.path)[1]) \subseteq SamplePaths
        /\ \A q \in SamplePaths \ AudioFilesUnder(canonicalize(last.path)[1]) :
               IsLink(q) /\ is_audio_entry(q)
        /\ Cardinality(SamplePaths) = Len(last.samples)
        /\ \A i \in 1..Len(last.samples) :
               last.samples[i].score = 0 /\ last.samples[i].comparisons = 0

----------------------------------------------------------------------------
\* the commands that register the parent of their file_path
RegisteringOps == {"save_progress", "load_progress", "export_results"}

\* C13 as claimed: in every reachable state the source directory and every
\* allowed path is a canonical absolute path, canonicalized before it was
\* stored, whichever command stored it.
C13_RootsCanonical ==
    \A r \in StoredRoots : canonicalize(r) = <<r>>

\* C13: only the source directory a successful scan stores is canonical.
\* save, load and export store the parent of their file_path as given, and
\* a successful load stores the loaded source_directory as given; the
\* canonical forms are taken when a path is checked: a path is allowed
\* exactly when its canonical form starts with the canonical form some
\* stored root has at that moment, so a stored root that resolves is
\* itself allowed however it is spelled.
C13_CanonicalWhenCompared ==
    /\ (last.op = "scan_directory" /\ last.ok) =>
           /\ source_directory = canonicalize(last.path)
           /\ canonicalize(source_directory[1]) = source_directory
    /\ (last.op \in RegisteringOps /\ parent(last.path) # <<>>) =>
           contains(allowed_paths, parent(last.path)[1])
    /\ (last.op = "load_progress" /\ last.ok) =>
           source_directory = <<last.state[1].source_directory>>
    /\ \A r \in StoredRoots :
           is_path_allowed(r) <=> canonicalize(r) # <<>>

\* the canonical root of a scan through /link next to the parents "" and
\* /link stored as given
C13_Witness ==
    /\ last.op = "scan_directory" /\ last.ok
    /\ last.path = <<"/", "link">>
    /\ source_directory = << <<"/", "data", "foo">> >>
    /\ contains(allowed_paths, <<>>)
    /\ contains(allowed_paths, <<"/", "link">>)
    /\ is_path_allowed(<<"/", "link", "k.wav">>)

\* C14 as claimed: a command that registers a parent which cannot be
\* canonicalized leaves the allowed paths unchanged.
C14_NoOpWhenNotCanonical ==
    [][ (/\ last'.op \in RegisteringOps
         /\ parent(last'.path) # <<>>
         /\ canonicalize(parent(last'.path)[1]) = <<>>)
            => allowed_paths' = allowed_paths ]_vars

\* C14: a parent that cannot be canonicalized is appended as given unless an
\* equal entry is already stored; as long as it has no canonical form the
\* entry lets no path through.
C14_StoredThoughNotCanonical ==
    [][ (/\ last'.op \in RegisteringOps
         /\ parent(last'.path) # <<>>
         /\ canonicalize(parent(last'.path)[1]) = <<>>)
            => /\ allowed_paths' =
                      IF contains(allowed_paths, parent(last'.path)[1])
                      THEN allowed_paths
                      ELSE Append(allowed_paths, parent(last'.path)[1])
               /\ \A p \in ProbePaths :
                      canonicalize(p) # <<>> =>
                          ~allowed_allows(<<parent(last'.path)[1]>>,
                                          canonicalize(p)[1]) ]_vars

\* the empty parent of the bare file name s.json is the only allowed path,
\* the export wrote the file, and the file is not allowed
C14_Witness ==
    /\ last.op = "export_results" /\ last.ok
    /\ last.path = <<"s.json">>
    /\ allowed_paths = << <<>> >>
    /\ exists(<<"s.json">>)
    /\ ~is_path_allowed(<<"s.json">>)

----------------------------------------------------------------------------
\* C15: the allowed paths only grow at the end: in every step of every
\* command the sequence before the step is a prefix of the sequence after
\* it, and a path that some allowed path let through before the step is
\* let through by an allowed path after it.
C15_AppendOnly ==
    [][ /\ SegmentPrefix(allowed_paths, allowed_paths')
        /\ allowed_paths' # allowed_paths =>
               \A p \in GatedInputs :
                   (canonicalize(p) # <<>>
                        /\ allowed_allows(allowed_paths, canonicalize(p)[1]))
                     => (canonicalize(p) # <<>>
                           /\ allowed_allows(allowed_paths, canonicalize(p)[1]))'
      ]_vars

\* /home was registered first, other parents after it, and a later gated
\* command on /home/s.json still passes through it
C15_Witness ==
    /\ Len(allowed_paths) >= 3
    /\ allowed_paths[1] = <<"/", "home">>
    /\ last.op \in GatedOps
    /\ last.path = <<"/", "home", "s.json">>
    /\ last.checked = <<TRUE>>
    /\ ~source_allows(source_directory, <<"/", "home", "s.json">>)

\* a command registered the parent of an absolute file_path, the parent
\* exists and so does the file_path
DestinationRegistered ==
    /\ last.op \in RegisteringOps
    /\ Head(last.path) = "/"
    /\ parent(last.path) # <<>>
    /\ exists(parent(last.path)[1])
    /\ exists(last.path)

\* C16 as claimed: after save, load or export with an absolute file_path
\* whose parent exists, the file_path, once it exists, is allowed.
C16_DestinationAllowed ==
    DestinationRegistered => is_path_allowed(last.path)

\* C16: after save, load or export with an absolute file_path whose parent
\* exists, the parent is an allowed path; the file_path, once it exists, is
\* let through by the allowed paths, whatever the source directory is, when
\* its canonical form lies under the canonical form of its parent, and a
\* gated command on it then passes the check.  A file_path that is a
\* symbolic link leading out of its parent is not let through by it.
C16_DestinationAllowedUnlessLinkedAway ==
    /\ DestinationRegistered =>
           LET c == canonicalize(last.path)[1]
               d == canonicalize(parent(last.path)[1])[1]
           IN  /\ contains(allowed_paths, parent(last.path)[1])
               /\ Under(c, d) => allowed_allows(allowed_paths, c)
               /\ ~Under(c, d) =>
                      ~allowed_allows(<<parent(last.path)[1]>>, c)
    /\ (/\ last.op \in GatedOps
        /\ Head(last.path) = "/"
        /\ contains(allowed_paths, parent(last.path)[1])
        /\ exists(last.path)
        /\ Under(canonicalize(last.path)[1],
                 canonicalize(parent(last.path)[1])[1]))
           => last.checked = <<TRUE>>

\* a load of /home/s.json succeeded and the file is allowed through its
\* parent although the source directory does not cover it
C16_Witness ==
    /\ last.op = "load_progress" /\ last.ok
    /\ last.path = <<"/", "home", "s.json">>
    /\ contains(allowed_paths, <<"/", "home">>)
    /\ ~source_allows(source_directory, <<"/", "home", "s.json">>)
    /\ is_path_allowed(<<"/", "home", "s.json">>)

\* C17: a scan or a load that returns an error leaves the source directory
\* as it found it, and every path the source directory let through before
\* is still allowed.
C17_FailureKeepsSource ==
    (last.op \in {"scan_directory", "load_progress"} /\ ~last.ok) =>
        /\ source_directory = last.prev
        /\ \A p \in GatedInputs :
               (canonicalize(p) # <<>>
                    /\ source_allows(last.prev, canonicalize(p)[1]))
                 => is_path_allowed(p)

\* a load of a file that is not a saved state failed after a scan had set
\* the source directory, and /data/foo/k.wav is still allowed through it
C17_Witness ==
    /\ last.op = "load_progress" /\ ~last.ok
    /\ read_to_string(last.path) # <<>>
    /\ last.prev = << <<"/", "data", "foo">> >>
    /\ source_directory = last.prev
    /\ ~allowed_allows(allowed_paths, <<"/", "data", "foo", "k.wav">>)
    /\ is_path_allowed(<<"/", "data", "foo", "k.wav">>)

----------------------------------------------------------------------------
\* where a thread holds the guard of each mutex
HoldsSource == {"ssd_store", "ipa_source"}
HoldsAllowed == {"aap_contains", "aap_push", "aap_unlock", "ipa_allowed"}

\* no thread holds both mutexes, a thread holds a mutex exactly between its
\* lock and the drop of the guard, none when it has returned, and whenever
\* some thread is inside a method some thread inside a method can step
LockDiscipline ==
    /\ \A t \in Threads :
           /\ ~(mutex_source = t /\ mutex_allowed = t)
           /\ mutex_source = t <=> pc[t] \in HoldsSource
           /\ mutex_allowed = t <=> pc[t] \in HoldsAllowed
           /\ pc[t] = "idle" => (mutex_source # t /\ mutex_allowed # t)
    /\ mutex_source \in {0} \cup Threads
    /\ mutex_allowed \in {0} \cup Threads
    /\ (\E t \in Threads : pc[t] # "idle") =>
           \E t \in Threads : ENABLED (acquire(t) \/ proceed(t))

C19_Linearizable ==
    \A t \in Threads :
        (frame[t].op = "is_path_allowed" /\ frame[t].ret # <<>>) =>
            frame[t].ret[1] \in frame[t].seen

\* a call returned false after the source directory it had already read
\* was replaced by one that lets the path through
C19_Witness ==
    \E t \in Threads :
        /\ frame[t].op = "is_path_allowed"
        /\ pc[t] = "idle"
        /\ frame[t].ret = <<FALSE>>
        /\ frame[t].seen = {TRUE, FALSE}
        /\ answer_at(source_directory, allowed_paths, frame[t].path)

----------------------------------------------------------------------------
\* C20: right after a successful scan, with nothing run in between, every
\* returned Sample's path is allowed, so each scanned sample can be played,
\* revealed and copied.
C20_ScannedSamplesAllowed ==
    (last.op = "scan_directory" /\ last.ok) =>
        \A i \in 1..Len(last.samples) : is_path_allowed(last.samples[i].path)

============================================================================
